---------------------------- MODULE Spec2Model ----------------------------
(***************************************************************************)
(* Model of the fixed-pendulum simulation (src/mhs.py): a pymunk Space     *)
(* holding a static anchor, a dynamic bob and a PinJoint, driven by a      *)
(* pyglet window (keyboard state, fixed-interval update, on_draw).         *)
(*                                                                         *)
(* Floating-point quantities are fixed-point integers:                     *)
(*   positions        1/PosScale mm          (0.01 mm)                     *)
(*   velocities       1/VelScale mm/s        (0.01 mm/s)                   *)
(*   impulses         g*mm/s  (1/GramsPerKg kg*mm/s)                       *)
(*   unit vectors     1/UnitScale                                          *)
(*   angles           1/DegScale degree      (millidegrees)                *)
(*   angular velocity mrad/s                                               *)
(*   time             milliseconds                                         *)
(*   mass             grams                                                *)
(* Every division rounds to nearest, as the float operations do.           *)
(***************************************************************************)
EXTENDS Integers, Sequences, FiniteSets, TLC

VARIABLES
    space,        \* SimulationWindow.space with the Pendulum's bodies and joint
    twin,         \* a second run of the same program, fed other dt arguments
    keyboard,     \* SimulationWindow.keyboard (key.KeyStateHandler)
    angle_label,  \* SimulationWindow.angle_label.text
    surface,      \* what the window's surface shows: the layers painted since the last clear
    lastOp,       \* the handler that ran last
    lastUpdate,   \* what the last update did: the keys it saw, the impulses it applied
    steps,        \* number of update calls so far
    probe         \* result of a direct call of Pendulum.accelerate (specification SpecAcc)

vars == <<space, twin, keyboard, angle_label, surface, lastOp, lastUpdate, steps, probe>>

---------------------------------------------------------------------------
(* Bounds of the model *)

MaxSteps == 4

---------------------------------------------------------------------------
(* Fixed-point resolutions *)

PosScale  == 100
VelScale  == 100
GramsPerKg == 1000
UnitScale == 10000
DegScale  == 1000
PowScale  == 40000

---------------------------------------------------------------------------
(* Program constants *)

MASS     == 100      \* Pendulum.MASS = 0.100 kg, in grams
FORCE    == 10       \* Pendulum.FORCE
INTERVAL == 10       \* SimulationWindow.INTERVAL = 1.0 / 100 s, in ms
GRAVITY_Y == -9807   \* space.gravity = Vec2d(0, -9807), mm/s^2
RADIUS   == 10       \* outer_radius = 10.0, mm
ANCHOR_X == 360      \* static_body.position = (360, 360)
ANCHOR_Y == 360
BOB_X    == 360      \* circle_body.position = (360, 50)
BOB_Y    == 50
ITERATIONS == 10     \* pymunk.Space().iterations default

---------------------------------------------------------------------------
(* Integer arithmetic standing for the float operations *)

Abs(a) == IF a < 0 THEN -a ELSE a

Sgn(a) == IF a < 0 THEN -1 ELSE IF a > 0 THEN 1 ELSE 0

\* a / b rounded to nearest, halves away from zero (b > 0)
RDiv(a, b) == Sgn(a) * ((Abs(a) + b \div 2) \div b)

RECURSIVE SqrtSearch(_, _, _)
SqrtSearch(n, lo, hi) ==
    IF lo >= hi THEN lo
    ELSE LET mid == (lo + hi + 1) \div 2
         IN  IF mid * mid <= n THEN SqrtSearch(n, mid, hi)
                               ELSE SqrtSearch(n, lo, mid - 1)

\* math.sqrt, rounded to nearest
Sqrt(n) ==
    LET r == SqrtSearch(n, 0, 46340)
    IN  IF n - r * r > r THEN r + 1 ELSE r

---------------------------------------------------------------------------
(* pymunk.Vec2d *)

Vec2d(a, b) == [x |-> a, y |-> b]

Zero == Vec2d(0, 0)

VAdd(v, u) == Vec2d(v.x + u.x, v.y + u.y)

VSub(v, u) == Vec2d(v.x - u.x, v.y - u.y)

Dot(v, u) == v.x * u.x + v.y * u.y

Cross(v, u) == v.x * u.y - v.y * u.x

\* v * (num / den)
VScale(v, num, den) == Vec2d(RDiv(v.x * num, den), RDiv(v.y * num, den))

\* Vec2d.length
Length(v) == Sqrt(v.x * v.x + v.y * v.y)

\* Vec2d.normalized(): self / length, and Vec2d(0, 0) for the zero vector;
\* the result is a unit vector in 1/UnitScale
Normalized(v) ==
    LET len == Length(v)
    IN  IF len # 0 THEN VScale(v, UnitScale, len) ELSE Zero

---------------------------------------------------------------------------
(* Trigonometry (math.atan2, math.cos, math.sin) by CORDIC, in 1/DegScale degrees *)

\* atan(2^-i) for i = 0..16
AtanTable == <<45000, 26565, 14036, 7125, 3576, 1790, 895, 448, 224,
               112, 56, 28, 14, 7, 3, 2, 1>>

RECURSIVE Vectoring(_, _, _, _)
Vectoring(x, y, i, acc) ==
    IF y = 0 \/ i >= Len(AtanTable) THEN acc
    ELSE LET d == Sgn(y)
         IN  Vectoring(x + d * RDiv(y, 2^i), y - d * RDiv(x, 2^i), i + 1,
                       acc + d * AtanTable[i + 1])

\* math.degrees(math.atan2(y, x)): in (-180, 180], 180 for (+0.0, negative)
Atan2Degrees(y, x) ==
    IF x > 0 THEN Vectoring(x, y, 0, 0)
    ELSE IF x = 0 THEN 90 * DegScale * Sgn(y)
    ELSE IF y >= 0 THEN 180 * DegScale + Vectoring(-x, -y, 0, 0)
    ELSE -180 * DegScale + Vectoring(-x, -y, 0, 0)

RECURSIVE Rotation(_, _, _, _)
Rotation(x, y, z, i) ==
    IF i >= Len(AtanTable) THEN Vec2d(x, y)
    ELSE LET d == IF z >= 0 THEN 1 ELSE -1
         IN  Rotation(x - d * RDiv(y, 2^i), y + d * RDiv(x, 2^i),
                      z - d * AtanTable[i + 1], i + 1)

\* the CORDIC gain 1 / 1.646760 = 0.607253 taken out of a coordinate
Ungain(c) == RDiv(c * 607, 1000) + RDiv(c * 253, 1000000)

QuarterTurns(v, q) ==
    IF q = 0 THEN v
    ELSE IF q = 1 THEN Vec2d(-v.y, v.x)
    ELSE IF q = 2 THEN Vec2d(-v.x, -v.y)
    ELSE Vec2d(v.y, -v.x)

\* Vec2d.rotated: (x cos a - y sin a, x sin a + y cos a), a in 1/DegScale degrees
Rotated(v, a) ==
    LET full == 360 * DegScale
        quarter == 90 * DegScale
        t == a % full
        r == t % quarter
        w == IF r = 0 THEN v
             ELSE LET c == Rotation(v.x, v.y, r, 0)
                  IN  Vec2d(Ungain(c.x), Ungain(c.y))
    IN  QuarterTurns(w, t \div quarter)

\* Vec2d.rotated_degrees
RotatedDegrees(v, deg) == Rotated(v, deg * DegScale)

\* Vec2d.get_angle_degrees_between: degrees(atan2(cross, dot))
GetAngleDegreesBetween(v, u) == Atan2Degrees(Cross(v, u), Dot(v, u))

---------------------------------------------------------------------------
(* pymunk.Body: the dynamic bob.  p position, v velocity, a angle, w angular *)
(* velocity.  The static anchor body has infinite mass and moment: its       *)
(* inverse mass is 0, the solver never moves it.                             *)

\* pymunk.moment_for_circle(mass, inner_radius, outer_radius), g*mm^2
MomentForCircle(m, r1, r2) == (m * (r1 * r1 + r2 * r2)) \div 2

Moment == MomentForCircle(MASS, 0, RADIUS)

\* body.v += j * m_inv; body.w += i_inv * cross(r, j)   (Chipmunk apply_impulse)
ApplyImpulse(b, j, r) ==
    [b EXCEPT !.v = VAdd(b.v, VScale(j, VelScale, MASS)),
              !.w = b.w + RDiv(RDiv(Cross(r, j), PosScale) * 1000, Moment)]

\* Body.apply_impulse_at_local_point(impulse, point): both are rotated by the
\* body's angle into world coordinates; r is the arm from the centre of gravity
ApplyImpulseAtLocalPoint(b, impulse, point) ==
    ApplyImpulse(b, Rotated(impulse, b.a), Rotated(point, b.a))

\* Chipmunk cpBodyUpdatePosition: p += v * dt; a += w * dt
UpdatePosition(b, dt) ==
    [b EXCEPT !.p = VAdd(b.p, VScale(b.v, dt * PosScale, VelScale * 1000)),
              !.a = b.a + RDiv(b.w * dt * 573, 10000)]

\* Chipmunk cpBodyUpdateVelocity: v = v * damping + gravity * dt, with the
\* default damping 1.0 and no force or torque set on the body
UpdateVelocity(b, dt) ==
    [b EXCEPT !.v = VAdd(b.v, Vec2d(0, RDiv(GRAVITY_Y * dt * VelScale, 1000)))]

---------------------------------------------------------------------------
(* pymunk.constraints.PinJoint(a = static_body, b = circle_body), anchors   *)
(* (0, 0) on both bodies                                                    *)

AnchorA == Zero

AnchorB == Zero

\* errorBias^(1 ms) = (0.9^60)^0.001 = 0.993698, in 1/PowScale
ErrorBiasMs == 39748

RECURSIVE PowErrorBias(_)
PowErrorBias(dt) ==
    IF dt <= 0 THEN PowScale ELSE RDiv(PowErrorBias(dt - 1) * ErrorBiasMs, PowScale)

\* Chipmunk bias_coef(errorBias, dt) = 1 - errorBias^dt, in 1/PowScale
BiasCoef(dt) == PowScale - PowErrorBias(dt)

\* cpPinJoint preStep: the joint's axis n, its effective mass and bias velocity
PreStep(sp, dt) ==
    LET b == sp.circle_body
        r1 == AnchorA
        r2 == Rotated(AnchorB, b.a)
        delta == VSub(VAdd(b.p, r2), VAdd(sp.static_body.p, r1))
        dist == Length(delta)
        n == Normalized(delta)
        rcn == RDiv(Cross(r2, n), PosScale * UnitScale)
    IN  [r2 |-> r2,
         n |-> n,
         nMass |-> RDiv(MASS * Moment, Moment + MASS * rcn * rcn),
         bias |-> -RDiv(BiasCoef(dt) * (dist - sp.joint.dist) * VelScale,
                        (PowScale \div 1000) * PosScale * dt)]

\* mutant: the joint is left out of the space, no impulse holds the bob
JointImpulseNone(b, pre, jn) == b

\* the joint impulse jn along n, applied to the bob (the static anchor takes none)
JointImpulse(b, pre, jn) == ApplyImpulse(b, VScale(pre.n, jn, UnitScale), pre.r2)

\* normal_relative_velocity(a, b, r1, r2, n) with the anchor at rest
NormalRelativeVelocity(b, pre) ==
    LET vsum == VAdd(b.v, Vec2d(RDiv(-pre.r2.y * b.w, 1000), RDiv(pre.r2.x * b.w, 1000)))
    IN  RDiv(Dot(vsum, pre.n), UnitScale)

\* cpPinJoint applyImpulse, `left` more times: jn = (bias - vrn) * nMass
RECURSIVE Solve(_, _, _, _)
Solve(b, jnAcc, pre, left) ==
    IF left = 0 THEN [body |-> b, jnAcc |-> jnAcc]
    ELSE LET vrn == NormalRelativeVelocity(b, pre)
             jn == RDiv((pre.bias - vrn) * pre.nMass, VelScale)
         IN  Solve(JointImpulse(b, pre, jn), jnAcc + jn, pre, left - 1)

---------------------------------------------------------------------------
(* pymunk.Space *)

\* Space.step(dt): integrate positions, prestep the joint, integrate
\* velocities, apply the cached joint impulse, run the solver iterations
Step(sp, dt) ==
    LET b1 == UpdatePosition(sp.circle_body, dt)
        pre == PreStep([sp EXCEPT !.circle_body = b1], dt)
        b2 == UpdateVelocity(b1, dt)
        cached == IF sp.curr_dt = 0 THEN 0 ELSE RDiv(sp.joint.jnAcc * dt, sp.curr_dt)
        b3 == JointImpulse(b2, pre, cached)
        out == Solve(b3, sp.joint.jnAcc, pre, ITERATIONS)
    IN  [sp EXCEPT !.circle_body = out.body,
                   !.joint.jnAcc = out.jnAcc,
                   !.curr_dt = dt]

---------------------------------------------------------------------------
(* class Pendulum *)

\* Pendulum._create_entities on a fresh Space; `calls` logs the calls of
\* accelerate made by the update in progress
CreateEntities ==
    LET anchor == Vec2d(ANCHOR_X * PosScale, ANCHOR_Y * PosScale)
        bob == Vec2d(BOB_X * PosScale, BOB_Y * PosScale)
    IN  [static_body |-> [p |-> anchor],
         circle_body |-> [p |-> bob, v |-> Zero, a |-> 0, w |-> 0],
         joint |-> [dist |-> Length(VSub(VAdd(bob, AnchorB), VAdd(anchor, AnchorA))),
                    jnAcc |-> 0],
         curr_dt |-> 0,
         calls |-> <<>>]

\* mutant: the bob's position subtracted from itself
VectorSelf(sp) == VSub(sp.circle_body.p, sp.circle_body.p)

\* Pendulum.vector
Vector(sp) == VSub(sp.circle_body.p, sp.static_body.p)

\* mutant: the two vectors of get_angle_degrees_between exchanged
AngleFromVector(sp) == GetAngleDegreesBetween(Vector(sp), Vec2d(0, -1))

\* Pendulum.angle
Angle(sp) == GetAngleDegreesBetween(Vec2d(0, -1), Vector(sp))

\* mutant: the impulse is applied at the rim of the bob instead of its centre
ImpulsePointRim == Vec2d(RADIUS * PosScale, 0)

\* the point of the bob at which accelerate applies its impulse (the default
\* point = (0, 0) of apply_impulse_at_local_point)
ImpulsePoint == Zero

\* mutant: the direction is used as it comes, without normalized()
AccelerateUnnormalized(sp, direction) ==
    LET impulse == Vec2d(FORCE * direction.x, FORCE * direction.y)
        b == ApplyImpulseAtLocalPoint(sp.circle_body, impulse, ImpulsePoint)
    IN  [sp EXCEPT !.circle_body = b,
                   !.calls = Append(sp.calls,
                                    [direction |-> direction,
                                     impulse |-> impulse,
                                     dv |-> VSub(b.v, sp.circle_body.v),
                                     dw |-> b.w - sp.circle_body.w])]

\* Pendulum.accelerate(direction)
Accelerate(sp, direction) ==
    LET impulse == VScale(Normalized(direction), FORCE * GramsPerKg, UnitScale)
        b == ApplyImpulseAtLocalPoint(sp.circle_body, impulse, ImpulsePoint)
    IN  [sp EXCEPT !.circle_body = b,
                   !.calls = Append(sp.calls,
                                    [direction |-> direction,
                                     impulse |-> impulse,
                                     dv |-> VSub(b.v, sp.circle_body.v),
                                     dw |-> b.w - sp.circle_body.w])]

---------------------------------------------------------------------------
(* class SimulationWindow *)

Keys == {"LEFT", "RIGHT"}

\* the dt arguments (ms) the clock may pass to update
DtSet == {5, 10, 20}

\* mutant: the two rotations exchanged
HandleInputSwapped(sp, kb) ==
    IF kb["LEFT"] THEN Accelerate(sp, RotatedDegrees(Vector(sp), 90))
    ELSE IF kb["RIGHT"] THEN Accelerate(sp, RotatedDegrees(Vector(sp), -90))
    ELSE sp

\* mutant: two independent ifs instead of if / elif
HandleInputBoth(sp, kb) ==
    LET s1 == IF kb["LEFT"] THEN Accelerate(sp, RotatedDegrees(Vector(sp), -90)) ELSE sp
    IN  IF kb["RIGHT"] THEN Accelerate(s1, RotatedDegrees(Vector(s1), 90)) ELSE s1

\* SimulationWindow._handle_input
HandleInput(sp, kb) ==
    IF kb["LEFT"] THEN Accelerate(sp, RotatedDegrees(Vector(sp), -90))
    ELSE IF kb["RIGHT"] THEN Accelerate(sp, RotatedDegrees(Vector(sp), 90))
    ELSE sp

\* mutant: the measured dt is used for the physics step
StepIntervalMeasured(dt) == dt

\* the interval update steps the space by
StepInterval(dt) == INTERVAL

\* the space after update(dt): _handle_input, then space.step
UpdateSpace(sp, kb, dt) ==
    Step(HandleInput([sp EXCEPT !.calls = <<>>], kb), StepInterval(dt))

\* float formatting ".0f": round to nearest integer, halves to even
RoundHalfEven(a) ==
    LET q == a \div DegScale
        r == a % DegScale
    IN  IF 2 * r > DegScale \/ (2 * r = DegScale /\ q % 2 = 1) THEN q + 1 ELSE q

RECURSIVE PadLeft(_, _)
PadLeft(str, width) == IF Len(str) >= width THEN str ELSE PadLeft(" " \o str, width)

\* format spec "4.0f": a negative value that rounds to zero keeps its sign
Format4Dot0f(a) ==
    LET n == RoundHalfEven(a)
    IN  PadLeft(IF n = 0 /\ a < 0 THEN "-0" ELSE ToString(n), 4)

\* f"Angle: {self.model.angle:4.0f}°"
LabelText(sp) == "Angle: " \o Format4Dot0f(Angle(sp)) \o "°"

\* mutant: the label is written before the space is stepped
UpdatedLabelStale(before, after) == LabelText(before)

\* the text update leaves in the label, computed from the space it has stepped
UpdatedLabel(before, after) == LabelText(after)

\* pyglet.text.Label(...) constructed without text
NewLabel == ""

\* Window.clear()
Clear(sf) == [layers |-> <<>>, bodies |-> <<>>, text |-> ""]

\* space.debug_draw(options): paints the bodies where they are
DebugDraw(sf, sp) ==
    [sf EXCEPT !.layers = Append(sf.layers, "space"),
               !.bodies = <<sp.static_body.p, sp.circle_body.p>>]

\* angle_label.draw(): paints the label's text
LabelDraw(sf, text) ==
    [sf EXCEPT !.layers = Append(sf.layers, "label"), !.text = text]

\* mutant: the label is drawn first and the surface is cleared over it
DrawnLabelFirst(sf, sp, text) == DebugDraw(Clear(LabelDraw(sf, text)), sp)

\* the surface after SimulationWindow.on_draw
Drawn(sf, sp, text) == LabelDraw(DebugDraw(Clear(sf), sp), text)

NoUpdate == [keys |-> [k \in Keys |-> FALSE], before |-> CreateEntities, calls |-> <<>>]

NoProbe == [done |-> FALSE]

\* the twin run before its first update
NewTwin == [space |-> CreateEntities, differ |-> FALSE]

\* SimulationWindow.__init__
Init ==
    /\ space = CreateEntities
    /\ twin = NewTwin
    /\ keyboard = [k \in Keys |-> FALSE]
    /\ angle_label = NewLabel
    /\ surface = Clear(<<>>)
    /\ lastOp = "init"
    /\ lastUpdate = NoUpdate
    /\ steps = 0
    /\ probe = NoProbe

\* KeyStateHandler.on_key_press (a run ends with the direct call that fills probe)
OnKeyPress(k) ==
    /\ ~probe.done
    /\ ~keyboard[k]
    /\ keyboard' = [keyboard EXCEPT ![k] = TRUE]
    /\ lastOp' = "on_key_press"
    /\ UNCHANGED <<space, twin, angle_label, surface, lastUpdate, steps, probe>>

\* KeyStateHandler.on_key_release
OnKeyRelease(k) ==
    /\ ~probe.done
    /\ keyboard[k]
    /\ keyboard' = [keyboard EXCEPT ![k] = FALSE]
    /\ lastOp' = "on_key_release"
    /\ UNCHANGED <<space, twin, angle_label, surface, lastUpdate, steps, probe>>

\* SimulationWindow.update(dt): everything but the twin run
UpdateWindow(dt) ==
    /\ ~probe.done
    /\ steps < MaxSteps
    /\ space' = UpdateSpace(space, keyboard, dt)
    /\ angle_label' = UpdatedLabel(space, space')
    /\ lastUpdate' = [keys |-> keyboard, before |-> space, calls |-> space'.calls]
    /\ steps' = steps + 1
    /\ lastOp' = "update"
    /\ UNCHANGED <<keyboard, surface, probe>>

\* SimulationWindow.update(dt)
Update(dt) == UpdateWindow(dt) /\ UNCHANGED twin

\* SimulationWindow.on_draw
OnDraw ==
    /\ ~probe.done
    /\ surface' = Drawn(surface, space, angle_label)
    /\ lastOp' = "on_draw"
    /\ UNCHANGED <<space, twin, keyboard, angle_label, lastUpdate, steps, probe>>

Next ==
    \/ \E k \in Keys : OnKeyPress(k)
    \/ \E k \in Keys : OnKeyRelease(k)
    \/ \E dt \in DtSet : Update(dt)
    \/ OnDraw

Spec == Init /\ [][Next]_vars

---------------------------------------------------------------------------
(* Two runs side by side: the same key states, each its own dt arguments *)

\* update(dt) in the first run and update(dt2) in the twin run
UpdateBoth(dt, dt2) ==
    /\ UpdateWindow(dt)
    /\ twin' = [space |-> UpdateSpace(twin.space, keyboard, dt2),
                differ |-> dt # dt2]

NextTwin ==
    \/ \E k \in Keys : OnKeyPress(k)
    \/ \E k \in Keys : OnKeyRelease(k)
    \/ \E dt \in DtSet, dt2 \in DtSet : UpdateBoth(dt, dt2)

SpecTwin == Init /\ [][NextTwin]_vars

---------------------------------------------------------------------------
(* Direct calls of Pendulum.accelerate on the states the program reaches *)

\* orientations with an integer length, so that normalizing them is exact
BaseDirections ==
    {Vec2d(1, 0), Vec2d(0, 1), Vec2d(-1, 0), Vec2d(0, -1),
     Vec2d(3, 4), Vec2d(-4, 3), Vec2d(-3, -4), Vec2d(4, -3)}

MaxScale == 3

\* accelerate(direction) and accelerate(k * direction) on the same bob state
AccelerateTwice(d, k) ==
    /\ ~probe.done
    /\ lastOp \in {"init", "update"}
    /\ LET one == Accelerate([space EXCEPT !.calls = <<>>], d)
           two == Accelerate([space EXCEPT !.calls = <<>>], Vec2d(k * d.x, k * d.y))
       IN  probe' = [done |-> TRUE, kind |-> "accelerate",
                     first |-> one.calls[1], second |-> two.calls[1],
                     a |-> space.circle_body.a]
    /\ lastOp' = "accelerate"
    /\ UNCHANGED <<space, twin, keyboard, angle_label, surface, lastUpdate, steps>>

NextAcc ==
    \/ \E k \in Keys : OnKeyPress(k)
    \/ \E k \in Keys : OnKeyRelease(k)
    \/ \E dt \in DtSet : Update(dt)
    \/ \E d \in BaseDirections, k \in 2..MaxScale : AccelerateTwice(d, k)

SpecAcc == Init /\ [][NextAcc]_vars

---------------------------------------------------------------------------
(* Pendulum.angle queried with the bob anywhere on the circle around the anchor *)

ThetaStep == 2500

Thetas ==
    LET m == (180 * DegScale) \div ThetaStep
    IN  {k * ThetaStep : k \in (-m)..m} \ {-180 * DegScale}

\* bob velocities the angle is queried under
BobVelocities == {Zero, Vec2d(-39345, 1289)}

\* the space with the bob moved to the resting position rotated by theta
Swung(theta, vel) ==
    LET sp == CreateEntities
        down == VSub(sp.circle_body.p, sp.static_body.p)
    IN  [sp EXCEPT !.circle_body.p = VAdd(sp.static_body.p, Rotated(down, theta)),
                   !.circle_body.v = vel]

InitAngle ==
    /\ \E theta \in Thetas, vel \in BobVelocities :
          /\ space = Swung(theta, vel)
          /\ probe = [done |-> FALSE, theta |-> theta]
    /\ twin = NewTwin
    /\ keyboard = [k \in Keys |-> FALSE]
    /\ angle_label = NewLabel
    /\ surface = Clear(<<>>)
    /\ lastOp = "init"
    /\ lastUpdate = NoUpdate
    /\ steps = 0

\* a read of the property Pendulum.angle
AngleQuery ==
    /\ ~probe.done
    /\ probe' = [done |-> TRUE, theta |-> probe.theta, angle |-> Angle(space)]
    /\ lastOp' = "angle"
    /\ UNCHANGED <<space, twin, keyboard, angle_label, surface, lastUpdate, steps>>

NextAngle == AngleQuery

SpecAngle == InitAngle /\ [][NextAngle]_vars

---------------------------------------------------------------------------
(* C1: fixed-step determinism *)

\* C1: two runs that start from the same space and see the same key states,
\* but get different dt arguments, have the same bob position and velocity
\* (the same space altogether) after every update, and every update steps
\* the space by exactly INTERVAL.
C1_FixedStepDeterminism ==
    /\ twin.space = space
    /\ twin.space.circle_body.p = space.circle_body.p
    /\ twin.space.circle_body.v = space.circle_body.v
    /\ steps > 0 => space.curr_dt = INTERVAL /\ twin.space.curr_dt = INTERVAL

\* two updates done, the last with different dt arguments, the bob in motion
C1_Witness ==
    /\ lastOp = "update"
    /\ steps >= 2
    /\ twin.differ
    /\ space.circle_body.v # Zero

---------------------------------------------------------------------------
(* C2: key-to-direction mapping *)

LeftOnly == [k \in Keys |-> k = "LEFT"]

RightOnly == [k \in Keys |-> k = "RIGHT"]

BothKeys == [k \in Keys |-> TRUE]

NoKeys == [k \in Keys |-> FALSE]

\* the Anchor->Bob vector the last update started from
RodBefore == Vector(lastUpdate.before)

\* u is perpendicular to the rod r, up to the rounding of u's two coordinates
Perpendicular(r, u) == Abs(Dot(r, u)) <= Abs(r.x) + Abs(r.y)

\* the last update applied exactly one impulse, perpendicular to the rod, whose
\* moment about the anchor has the given sign (+1 counter-clockwise, -1 clockwise)
PushedAround(sense) ==
    /\ Len(lastUpdate.calls) = 1
    /\ Dot(RodBefore, lastUpdate.calls[1].direction) = 0
    /\ Perpendicular(RodBefore, lastUpdate.calls[1].dv)
    /\ Sgn(Cross(RodBefore, lastUpdate.calls[1].dv)) = sense

\* C2 as stated: an update with only Left held pushes the bob perpendicular to
\* the rod counter-clockwise about the anchor, one with only Right held clockwise.
C2_LeftCounterClockwise ==
    steps > 0 =>
        /\ lastUpdate.keys = LeftOnly => PushedAround(1)
        /\ lastUpdate.keys = RightOnly => PushedAround(-1)

\* C2 amended: an update with only Left held pushes the bob perpendicular to
\* the rod clockwise about the anchor (the rod vector rotated by -90 degrees),
\* one with only Right held counter-clockwise (rotated by +90 degrees).
C2_LeftClockwise ==
    steps > 0 =>
        /\ lastUpdate.keys = LeftOnly => PushedAround(-1)
        /\ lastUpdate.keys = RightOnly => PushedAround(1)

\* an update with only Left held, started with the bob off the vertical
C2_Witness ==
    /\ lastOp = "update"
    /\ lastUpdate.keys = LeftOnly
    /\ RodBefore.x # 0
    /\ Len(lastUpdate.calls) = 1

---------------------------------------------------------------------------
(* C3: Left priority *)

\* C3: every update applies at most one impulse; with both keys held it is
\* exactly the impulse of Left alone, with no key held there is none and the
\* bob changes by the physics step only.
C3_LeftPriority ==
    steps > 0 =>
        LET b == [lastUpdate.before EXCEPT !.calls = <<>>]
        IN  /\ Len(lastUpdate.calls) <= 1
            /\ lastUpdate.keys = BothKeys =>
                  /\ lastUpdate.calls = HandleInput(b, LeftOnly).calls
                  /\ lastUpdate.calls # HandleInput(b, RightOnly).calls
                  /\ space = Step(HandleInput(b, LeftOnly), INTERVAL)
            /\ lastUpdate.keys = NoKeys =>
                  /\ lastUpdate.calls = <<>>
                  /\ space = Step(b, INTERVAL)

\* an update with both keys held has applied its one impulse
C3_Witness ==
    /\ lastOp = "update"
    /\ lastUpdate.keys = BothKeys
    /\ Len(lastUpdate.calls) = 1
    /\ steps >= 2

---------------------------------------------------------------------------
(* C4: the displayed label *)

\* the texts that read `Angle: <signed integer>°` for an angle a (1/DegScale
\* degrees) rounded to zero decimals: the integer is right-aligned in four
\* columns, and a negative angle that rounds to zero may show as -0
AngleTexts(a) ==
    LET near == {n \in -180..180 : 2 * Abs(n * DegScale - a) <= DegScale}
        fields == {ToString(n) : n \in near}
                      \cup (IF a < 0 /\ 0 \in near THEN {"-0"} ELSE {})
    IN  {"Angle: " \o PadLeft(f, 4) \o "°" : f \in fields}

\* C4 as stated: whenever on_draw has drawn, construction included, the label
\* it drew reads the rounded angle of the space it drew.
C4_DrawnLabelReadsAngle ==
    lastOp = "on_draw" => surface.text \in AngleTexts(Angle(space))

\* C4 amended: once update has run, the label reads the rounded current angle
\* in every state, so in every on_draw; before the first update the label is
\* empty and on_draw draws an empty text.
C4_LabelReadsAngleAfterUpdate ==
    /\ steps = 0 => angle_label = ""
    /\ steps > 0 => angle_label \in AngleTexts(Angle(space))
    /\ lastOp = "on_draw" => surface.text = angle_label

\* on_draw has drawn a label for a bob swung more than one degree off the vertical
C4_Witness ==
    /\ lastOp = "on_draw"
    /\ steps > 0
    /\ Abs(Angle(space)) > DegScale
    /\ surface.text = angle_label

---------------------------------------------------------------------------
(* C9: on_draw is a pure render pass *)

\* C9: on_draw clears the surface, then debug-draws the space, then draws the
\* label, and changes neither the space (bob, anchor), nor the key state, nor
\* the label text, nor the twin run: the surface shows the space's bodies
\* under the label, whatever it showed before.
C9_OnDrawPureRender ==
    [][lastOp' = "on_draw" =>
          /\ space' = space
          /\ keyboard' = keyboard
          /\ angle_label' = angle_label
          /\ steps' = steps
          /\ surface' = [layers |-> <<"space", "label">>,
                         bodies |-> <<space.static_body.p, space.circle_body.p>>,
                         text |-> angle_label]]_vars

\* on_draw has repainted a surface that showed an older frame
C9_Witness ==
    /\ lastOp = "on_draw"
    /\ steps >= 2
    /\ surface.layers = <<"space", "label">>
    /\ surface.bodies[2] = space.circle_body.p
    /\ space.circle_body.p # CreateEntities.circle_body.p

---------------------------------------------------------------------------
(* C5: accelerate normalizes its argument *)

\* C5: accelerate called on the same bob state with a direction d and with
\* k * d (same orientation, another length) changes the velocity by the same
\* amount, and the impulse has magnitude FORCE whatever the length.
C5_AccelerateNormalizes ==
    probe.done =>
        /\ probe.first.dv = probe.second.dv
        /\ probe.first.dw = probe.second.dw
        /\ probe.first.impulse = probe.second.impulse
        /\ Dot(probe.first.impulse, probe.first.impulse)
               = (FORCE * GramsPerKg) * (FORCE * GramsPerKg)

\* accelerate has been called, on a bob in motion, with two lengths of a diagonal direction
C5_Witness ==
    /\ probe.done
    /\ steps >= 2
    /\ space.circle_body.v # Zero
    /\ probe.first.direction # probe.second.direction
    /\ probe.first.direction.x # 0
    /\ probe.first.direction.y # 0
    /\ probe.first.dv # Zero

---------------------------------------------------------------------------
(* C6: the direction of the impulse *)

\* u points the way d does, up to the rounding of u's two coordinates
SameOrientation(d, u) ==
    /\ Dot(d, u) > 0
    /\ Abs(Cross(d, u)) <= Abs(d.x) + Abs(d.y)

\* a call of accelerate pushed along its direction argument and did not spin the bob
PushedAlong(call) ==
    /\ SameOrientation(call.direction, call.dv)
    /\ call.dw = 0

\* C6: in every reachable bob state the bob body is unrotated and unspun, so
\* the impulse accelerate applies in body coordinates has in world coordinates
\* the orientation of the direction argument; it changes the linear velocity
\* along that direction and adds no angular velocity.  This holds for the
\* calls update makes and for a direct call with any of the directions.
C6_AccelerateDirection ==
    /\ space.circle_body.a = 0
    /\ space.circle_body.w = 0
    /\ \A i \in 1..Len(lastUpdate.calls) : PushedAlong(lastUpdate.calls[i])
    /\ probe.done => PushedAlong(probe.first) /\ PushedAlong(probe.second)

\* accelerate has been called directly after updates that pushed the bob
C6_Witness ==
    /\ probe.done
    /\ steps >= 2
    /\ Len(lastUpdate.calls) = 1
    /\ probe.first.direction.x # 0
    /\ probe.first.direction.y # 0
    /\ probe.first.dv # Zero

---------------------------------------------------------------------------
(* C10: accelerate's precondition *)

\* C10: the Anchor->Bob vector is never the zero vector, and every direction
\* _handle_input passes to accelerate is non-zero (has a non-zero length to
\* normalize by).
C10_DirectionNonZero ==
    /\ Vector(space) # Zero
    /\ Length(Vector(space)) > 0
    /\ \A i \in 1..Len(lastUpdate.calls) :
          /\ lastUpdate.calls[i].direction # Zero
          /\ Length(lastUpdate.calls[i].direction) > 0
          /\ lastUpdate.calls[i].impulse # Zero

\* an update has passed a direction to accelerate, the bob already swinging
C10_Witness ==
    /\ lastOp = "update"
    /\ steps >= 2
    /\ Len(lastUpdate.calls) = 1
    /\ lastUpdate.before.circle_body.v # Zero

---------------------------------------------------------------------------
(* C7: the angle query *)

\* accuracy of the fixed-point rotation and arctangent, in 1/DegScale degrees
AngleTol == 10

\* C7: with the Anchor->Bob vector equal to the downward vector rotated by
\* theta, -180 < theta <= 180, Pendulum.angle returns theta: 0 straight down,
\* positive for a rotation by +theta, negative for -theta, always within
\* (-180, 180], whatever the bob's velocity.
C7_AngleQuery ==
    probe.done =>
        /\ Abs(probe.angle - probe.theta) <= AngleTol
        /\ Sgn(probe.angle) = Sgn(probe.theta)
        /\ probe.angle > -180 * DegScale
        /\ probe.angle <= 180 * DegScale
        /\ probe.theta = 0 => probe.angle = 0
        /\ probe.angle = Angle(Swung(probe.theta, Zero))

\* the angle of a bob swung clockwise beyond the horizontal has been queried
C7_Witness ==
    /\ probe.done
    /\ probe.theta < -90 * DegScale
    /\ probe.angle < -90 * DegScale
    /\ space.circle_body.v # Zero

---------------------------------------------------------------------------
(* C8: the rod *)

\* the squared distance between bob and anchor
Dist2(sp) == Dot(Vector(sp), Vector(sp))

\* the bob's velocity along the rod, and the velocity the joint asks for there
RadialVelocity(sp) == NormalRelativeVelocity(sp.circle_body, PreStep(sp, INTERVAL))

JointBias(sp) == PreStep(sp, INTERVAL).bias

AnchorFixed ==
    /\ space.static_body.p = Vec2d(ANCHOR_X * PosScale, ANCHOR_Y * PosScale)
    /\ space.joint.dist = (ANCHOR_Y - BOB_Y) * PosScale

\* C8 as stated: after construction and after any updates the distance between
\* bob and anchor equals its initial value 310 and the anchor stays at (360, 360).
C8_DistanceConstant ==
    /\ AnchorFixed
    /\ Dist2(space) = space.joint.dist * space.joint.dist

\* C8 amended: the anchor stays at (360, 360) and the joint's length stays 310;
\* the solver holds the rod at the velocity level only: after every update the
\* bob's velocity along the rod is the joint's bias velocity (zero while the
\* distance is 310), so the bob leaves each update moving tangentially to the
\* rod.  The distance itself is 310 as long as no impulse has been applied,
\* and from then on is never less than 310 but drifts above it.
C8_RodHeldAtVelocityLevel ==
    /\ AnchorFixed
    /\ RadialVelocity(space) = JointBias(space)
    /\ Dist2(space) >= space.joint.dist * space.joint.dist
    /\ Dist2(space) = space.joint.dist * space.joint.dist => JointBias(space) = 0
    /\ (steps > 0 /\ lastUpdate.calls = <<>>
           /\ lastUpdate.before.circle_body = CreateEntities.circle_body)
          => space.circle_body = CreateEntities.circle_body

\* updates have pushed the bob and the rod is longer than 310
C8_Witness ==
    /\ lastOp = "update"
    /\ steps >= 2
    /\ space.circle_body.v # Zero
    /\ Dist2(space) > space.joint.dist * space.joint.dist
    /\ RadialVelocity(space) = JointBias(space)

\* the bob hanging at rest has been stepped without a key held
C8_RestWitness ==
    /\ lastOp = "update"
    /\ steps >= 2
    /\ lastUpdate.calls = <<>>
    /\ space.circle_body = CreateEntities.circle_body

============================================================================
